---- MODULE Spec2Model ----
(***************************************************************************)
(* The per-user conversation / authorization state machine of main.py:     *)
(* the five in-memory dictionaries, the two webhook handlers               *)
(* (handle_message, handle_button_click), generate_post, post_to_linkedin, *)
(* get_oauth_url and the /callback route.                                  *)
(*                                                                         *)
(* Message texts are sequences of one-character strings, so that           *)
(* lower(), strip(), startswith() and replace() are computed, not assumed. *)
(***************************************************************************)
EXTENDS Integers, Sequences, FiniteSets, TLC

VARIABLES user_conversations, pending_posts, user_tokens, user_states,
          oauth_states, client, LINKEDIN_CLIENT_ID, now, presented, last

vars == <<user_conversations, pending_posts, user_tokens, user_states,
          oauth_states, client, LINKEDIN_CLIENT_ID, now, presented, last>>

-----------------------------------------------------------------------------
(* Bounds of the exploration *)

\* events handled in one behaviour of Spec (every identity, every input)
MaxEvents == 3
\* events handled in one behaviour of SpecFlow (one identity, the publishing flow)
MaxFlowEvents == 7
MaxEditEvents == 4
\* seconds the wall clock advances
MaxTime == 2

(* Program constants *)

\* post_content[:100]
ExcerptLen == 100
\* token_data.get("expires_in", 3600)
DefaultExpiresIn == 3600
\* buttons[:3]
MaxButtons == 3

-----------------------------------------------------------------------------
(* Python values *)

None == "None"

Identities == {"p1", "p2"}

\* dict[k] = v
Put(d, k, v) == [x \in (DOMAIN d) \cup {k} |-> IF x = k THEN v ELSE d[x]]

\* del dict[k]
Del(d, k) == [x \in (DOMAIN d) \ {k} |-> d[x]]

\* dict.get(k, default)
Get(d, k, default) == IF k \in DOMAIN d THEN d[k] ELSE default

EmptyDict == [x \in {} |-> None]

Min(a, b) == IF a < b THEN a ELSE b

-----------------------------------------------------------------------------
(* str methods, on sequences of characters *)

ToLower == [A |-> "a", B |-> "b", C |-> "c", D |-> "d", E |-> "e", F |-> "f",
            G |-> "g", H |-> "h", I |-> "i", J |-> "j", K |-> "k", L |-> "l",
            M |-> "m", N |-> "n", O |-> "o", P |-> "p", Q |-> "q", R |-> "r",
            S |-> "s", T |-> "t", U |-> "u", V |-> "v", W |-> "w", X |-> "x",
            Y |-> "y", Z |-> "z"]

Whitespace == {" ", "\n", "\t"}

\* str.lower()
Lower(s) == [i \in 1..Len(s) |-> IF s[i] \in DOMAIN ToLower THEN ToLower[s[i]] ELSE s[i]]

RECURSIVE LStrip(_)
LStrip(s) == IF s # <<>> /\ Head(s) \in Whitespace THEN LStrip(Tail(s)) ELSE s

RECURSIVE RStrip(_)
RStrip(s) == IF s # <<>> /\ s[Len(s)] \in Whitespace
             THEN RStrip(SubSeq(s, 1, Len(s) - 1)) ELSE s

\* str.strip()
Strip(s) == RStrip(LStrip(s))

\* str.startswith(prefix)
StartsWith(s, prefix) ==
    Len(s) >= Len(prefix) /\ SubSeq(s, 1, Len(prefix)) = prefix

\* str.replace(old, new): every non-overlapping occurrence, left to right
RECURSIVE Replace(_, _, _)
Replace(s, old, new) ==
    IF s = <<>> THEN <<>>
    ELSE IF StartsWith(s, old)
         THEN new \o Replace(SubSeq(s, Len(old) + 1, Len(s)), old, new)
         ELSE <<Head(s)>> \o Replace(Tail(s), old, new)

\* s[:n]
Prefix(s, n) == SubSeq(s, 1, Min(n, Len(s)))

-----------------------------------------------------------------------------
(* The texts the environment supplies *)

CmdStart      == <<"s","t","a","r","t">>
CmdHelp       == <<"h","e","l","p">>
CmdAuth       == <<"a","u","t","h">>
CmdCode       == <<"c","o","d","e",":">>
CmdCancel     == <<"c","a","n","c","e","l">>
CmdRegenerate == <<"r","e","g","e","n","e","r","a","t","e">>
CmdEdit       == <<"e","d","i","t">>

\* f"Please regenerate based on the previous idea, but with these considerations: {message_text}"
RegenerationPrompt(message_text) ==
    <<"Please regenerate based on the previous idea, but with these considerations: ">>
        \o message_text

\* the authorization codes LinkedIn hands out
AuthCodes == { <<"x","1">> }

\* the message bodies users send
Idea == <<"H","i">>
SendCode == CmdCode \o <<"x","1">>
Bodies == { Idea,
            <<"H","e","l","p">>,
            CmdAuth,
            CmdCode,
            SendCode,
            CmdCancel,
            CmdRegenerate,
            <<" ","E","d","i","t","\n">> }

\* the post the generator returns, longer than the excerpt of it
GeneratedPosts == { [i \in 1..(ExcerptLen + 1) |-> "y"] }

AccessTokens == {"at1"}
LinkedInSubs == {"sub1"}

\* the ids of the buttons the bot offers, and one it never offers
ButtonIds == {"approve", "regenerate_btn", "edit_btn", "cancel_btn", "cancel"}

\* LinkedIn's answers to the code exchange: the request fails, or a JSON body
\* without access_token, or one with it and with or without expires_in
TokenResponses ==
    { [status |-> "error", has_access_token |-> FALSE, access_token |-> "",
       has_expires_in |-> FALSE, expires_in |-> 0],
      [status |-> "ok", has_access_token |-> FALSE, access_token |-> "",
       has_expires_in |-> FALSE, expires_in |-> 0] }
    \cup { [status |-> "ok", has_access_token |-> TRUE, access_token |-> a,
            has_expires_in |-> FALSE, expires_in |-> 0] : a \in AccessTokens }
    \cup { [status |-> "ok", has_access_token |-> TRUE, access_token |-> a,
            has_expires_in |-> TRUE, expires_in |-> 1] : a \in AccessTokens }

\* the userinfo endpoint: a sub, or None
SubResponses == LinkedInSubs \cup {None}

\* the generator: a post, or an exception
GenResponses == [status : {"ok"}, text : GeneratedPosts]
                    \cup {[status |-> "error", text |-> <<>>]}

\* the ugcPosts endpoint: 201, another status, or an exception
PublishResponses == {"created", "http_error", "exception"}

GenError == [status |-> "error", text |-> <<>>]
TokError == CHOOSE r \in TokenResponses : r.status = "error"

NoState == <<"", 0>>
NoCode == <<>>

-----------------------------------------------------------------------------
(* Outbound calls.  A handler threads a record W: the five dictionaries, the *)
(* messages sent to WhatsApp so far (sent) and the calls made to Anthropic   *)
(* and LinkedIn so far (api).                                                *)

TextMsg(to, msg, text) ==
    [type |-> "text", to |-> to, msg |-> msg, text |-> text,
     state |-> NoState, reason |-> "", buttons |-> <<>>]

\* send_whatsapp_message(to, message_text)
send_whatsapp_message(W, to, msg, text) ==
    [W EXCEPT !.sent = Append(@, TextMsg(to, msg, text))]

\* send_whatsapp_interactive_buttons(to, message_text, buttons)
send_whatsapp_interactive_buttons(W, to, msg, text, buttons) ==
    [W EXCEPT !.sent = Append(@, [type |-> "interactive", to |-> to, msg |-> msg,
                                  text |-> text, state |-> NoState,
                                  reason |-> "", buttons |-> buttons])]

\* a call to Anthropic or LinkedIn: what was passed and what came back
ApiCall(svc, who, content, result) ==
    [svc |-> svc, who |-> who, content |-> content, result |-> result]

-----------------------------------------------------------------------------
(* LinkedIn *)

\* a state token made from the second alone
state_hash_TimeOnly(phone_number, t) == <<"", t>>

\* hashlib.sha256(f"{phone_number}_{int(time.time())}").hexdigest()
state_hash(phone_number, t) == <<phone_number, t>>

\* get_oauth_url returning the URL without storing the state
get_oauth_url_NoStore(W, phone_number, t) == W

\* get_oauth_url: stores the state and returns the URL, which embeds it
get_oauth_url(W, phone_number, t) ==
    [W EXCEPT !.os = Put(@, state_hash(phone_number, t), phone_number)]

\* post_to_linkedin without the comparison of time.time() with expires_at
post_to_linkedin_NoExpiryCheck(tokens, phone_number, content, t, pub) ==
    IF phone_number \notin DOMAIN tokens
    THEN [success |-> FALSE, message |-> "need_auth", api |-> <<>>]
    ELSE LET call == ApiCall("linkedin_ugcPosts", phone_number, content, pub)
         IN  IF pub = "created"
             THEN [success |-> TRUE, message |-> "created", api |-> <<call>>]
             ELSE [success |-> FALSE, message |-> pub, api |-> <<call>>]

\* post_to_linkedin: (success, message) and the call made to ugcPosts, if any
post_to_linkedin(tokens, phone_number, content, t, pub) ==
    IF phone_number \notin DOMAIN tokens
    THEN [success |-> FALSE, message |-> "need_auth", api |-> <<>>]
    ELSE LET token_data == tokens[phone_number]
             call == ApiCall("linkedin_ugcPosts", phone_number, content, pub)
         IN  IF token_data.access_token = ""
             THEN [success |-> FALSE, message |-> "token_not_found", api |-> <<>>]
             ELSE IF token_data.linkedin_id_sub = ""
             THEN [success |-> FALSE, message |-> "sub_not_found", api |-> <<>>]
             ELSE IF t > token_data.expires_at
             THEN [success |-> FALSE, message |-> "token_expired", api |-> <<>>]
             ELSE IF pub = "created"
             THEN [success |-> TRUE, message |-> "created", api |-> <<call>>]
             ELSE [success |-> FALSE, message |-> pub, api |-> <<call>>]

-----------------------------------------------------------------------------
(* Post generation *)

Turn(role, content) == [role |-> role, content |-> content]

\* the four buttons offered after a generation
PostButtons == <<"approve", "regenerate_btn", "edit_btn", "cancel_btn">>

\* the generated post becomes the pending post, but no turn of the history
StoreGeneratedPost_NoAssistantTurn(W, phone_number, response) ==
    [W EXCEPT !.pp = Put(@, phone_number, response)]

\* the generated post becomes the last turn of the history and the pending post
StoreGeneratedPost(W, phone_number, response) ==
    [W EXCEPT !.uc = Put(@, phone_number,
                         Append(@[phone_number], Turn("assistant", response))),
              !.pp = Put(@, phone_number, response)]

\* the first three buttons only
SendPostButtons_FirstThreeOnly(W, phone_number, buttons) ==
    send_whatsapp_interactive_buttons(W, phone_number, "what_to_do", <<>>,
                                      Prefix(buttons, MaxButtons))

\* buttons[:3] in one interactive message, then buttons[3] in another
SendPostButtons(W, phone_number, buttons) ==
    LET W1 == send_whatsapp_interactive_buttons(W, phone_number, "what_to_do", <<>>,
                                                Prefix(buttons, MaxButtons))
    IN  IF Len(buttons) > MaxButtons
        THEN send_whatsapp_interactive_buttons(W1, phone_number, "more_options", <<>>,
                                               <<buttons[MaxButtons + 1]>>)
        ELSE W1

\* generate_post(phone_number); gen is what client.messages.create does
generate_post(W, phone_number, gen) ==
    IF ~client
    THEN send_whatsapp_message(W, phone_number, "generation_unavailable", <<>>)
    ELSE IF phone_number \notin DOMAIN W.uc \/ W.uc[phone_number] = <<>>
    THEN send_whatsapp_message(W, phone_number, "provide_topic_first", <<>>)
    ELSE
      LET W1 == [W EXCEPT !.api = Append(@, ApiCall("anthropic", phone_number,
                                                    W.uc[phone_number], gen.status))]
      IN  IF gen.status = "error"
          THEN send_whatsapp_message(W1, phone_number, "generation_error", <<>>)
          ELSE
            LET response == gen.text
                W2 == StoreGeneratedPost(W1, phone_number, response)
                W3 == send_whatsapp_message(W2, phone_number, "generated_post", response)
            IN  SendPostButtons(W3, phone_number, PostButtons)

-----------------------------------------------------------------------------
(* Text messages *)

\* the regenerate command removing the last turn whatever its role
Regenerate_PopsAnyTurn(W, phone_number) ==
    IF phone_number \notin DOMAIN W.uc \/ W.uc[phone_number] = <<>>
    THEN send_whatsapp_message(W, phone_number, "no_context_to_regenerate", <<>>)
    ELSE
      LET conv == W.uc[phone_number]
          W1 == [W EXCEPT !.uc = Put(@, phone_number, SubSeq(conv, 1, Len(conv) - 1))]
          W2 == send_whatsapp_message(W1, phone_number, "provide_changes", <<>>)
      IN  [W2 EXCEPT !.us = Put(@, phone_number, "awaiting_regeneration_prompt")]

\* the regenerate command deleting the pending post with the turn it pops
Regenerate_DropsDraft(W, phone_number) ==
    IF phone_number \notin DOMAIN W.uc \/ W.uc[phone_number] = <<>>
    THEN send_whatsapp_message(W, phone_number, "no_context_to_regenerate", <<>>)
    ELSE
      LET conv == W.uc[phone_number]
          W1 == IF conv # <<>> /\ conv[Len(conv)].role = "assistant"
                THEN [W EXCEPT !.uc = Put(@, phone_number, SubSeq(conv, 1, Len(conv) - 1)),
                               !.pp = Del(@, phone_number)]
                ELSE W
          W2 == send_whatsapp_message(W1, phone_number, "provide_changes", <<>>)
      IN  [W2 EXCEPT !.us = Put(@, phone_number, "awaiting_regeneration_prompt")]

\* the regenerate command, typed or clicked
Regenerate(W, phone_number) ==
    IF phone_number \notin DOMAIN W.uc \/ W.uc[phone_number] = <<>>
    THEN send_whatsapp_message(W, phone_number, "no_context_to_regenerate", <<>>)
    ELSE
      LET conv == W.uc[phone_number]
          W1 == IF conv # <<>> /\ conv[Len(conv)].role = "assistant"
                THEN [W EXCEPT !.uc = Put(@, phone_number, SubSeq(conv, 1, Len(conv) - 1))]
                ELSE W
          W2 == send_whatsapp_message(W1, phone_number, "provide_changes", <<>>)
      IN  [W2 EXCEPT !.us = Put(@, phone_number, "awaiting_regeneration_prompt")]

\* the edit command waiting for the edited text even when no post is pending
Edit_WithoutDraft(W, phone_number, no_draft_msg) ==
    LET W1 == IF phone_number \in DOMAIN W.pp
              THEN send_whatsapp_message(W, phone_number, "current_post",
                                         W.pp[phone_number])
              ELSE send_whatsapp_message(W, phone_number, no_draft_msg, <<>>)
    IN  [W1 EXCEPT !.us = Put(@, phone_number, "awaiting_edit")]

\* the edit command, typed (no_draft_msg "no_pending_edit_idea") or clicked
Edit(W, phone_number, no_draft_msg) ==
    IF phone_number \in DOMAIN W.pp
    THEN LET W1 == send_whatsapp_message(W, phone_number, "current_post",
                                         W.pp[phone_number])
         IN  [W1 EXCEPT !.us = Put(@, phone_number, "awaiting_edit")]
    ELSE send_whatsapp_message(W, phone_number, no_draft_msg, <<>>)

\* the cancel command storing a phase name where the code stores None
Cancel_StoresIdle(W, phone_number, msg) ==
    LET W1 == IF phone_number \in DOMAIN W.pp
              THEN [W EXCEPT !.pp = Del(@, phone_number)] ELSE W
        W2 == [W1 EXCEPT !.us = Put(@, phone_number, "idle")]
    IN  send_whatsapp_message(W2, phone_number, msg, <<>>)

\* the cancel command, typed or clicked
Cancel(W, phone_number, msg) ==
    LET W1 == IF phone_number \in DOMAIN W.pp
              THEN [W EXCEPT !.pp = Del(@, phone_number)] ELSE W
        W2 == [W1 EXCEPT !.us = Put(@, phone_number, None)]
    IN  send_whatsapp_message(W2, phone_number, msg, <<>>)

\* the "code:" branch storing the access token before the user id is known
ExchangeCode_StoresBeforeLookup(W, phone_number, lower_text, t, tok, sub) ==
    LET code == Strip(Replace(lower_text, CmdCode, <<>>))
    IN  IF code = <<>>
        THEN send_whatsapp_message(W, phone_number, "code_missing", <<>>)
        ELSE
          LET W1 == send_whatsapp_message(W, phone_number, "authenticating", <<>>)
              W2 == [W1 EXCEPT !.api = Append(@, ApiCall("linkedin_accessToken",
                                      phone_number, code,
                                      IF tok.status = "ok" /\ ~tok.has_access_token
                                      THEN "no_access_token" ELSE tok.status))]
          IN  IF tok.status = "ok" /\ tok.has_access_token
              THEN
                LET expires_in == IF tok.has_expires_in THEN tok.expires_in
                                  ELSE DefaultExpiresIn
                    found == sub # None /\ sub # ""
                    W3 == [W2 EXCEPT
                             !.api = Append(@, ApiCall("linkedin_userinfo",
                                                phone_number, tok.access_token, sub)),
                             !.ut = Put(@, phone_number,
                                        [access_token |-> tok.access_token,
                                         expires_at |-> t + expires_in,
                                         linkedin_id_sub |-> IF found THEN sub ELSE ""])]
                IN  IF found
                    THEN send_whatsapp_message(W3, phone_number, "connected", <<>>)
                    ELSE send_whatsapp_message(W3, phone_number, "no_user_id", <<>>)
              ELSE send_whatsapp_message(W2, phone_number, "authentication_failed", <<>>)

\* the "code:" branch of handle_message; tok and sub are LinkedIn's answers
ExchangeCode(W, phone_number, lower_text, t, tok, sub) ==
    LET code == Strip(Replace(lower_text, CmdCode, <<>>))
    IN  IF code = <<>>
        THEN send_whatsapp_message(W, phone_number, "code_missing", <<>>)
        ELSE
          LET W1 == send_whatsapp_message(W, phone_number, "authenticating", <<>>)
              W2 == [W1 EXCEPT !.api = Append(@, ApiCall("linkedin_accessToken",
                                      phone_number, code,
                                      IF tok.status = "ok" /\ ~tok.has_access_token
                                      THEN "no_access_token" ELSE tok.status))]
          IN  IF tok.status = "ok" /\ tok.has_access_token
              THEN
                LET expires_in == IF tok.has_expires_in THEN tok.expires_in
                                  ELSE DefaultExpiresIn
                    W3 == [W2 EXCEPT !.api = Append(@, ApiCall("linkedin_userinfo",
                                                    phone_number, tok.access_token, sub))]
                IN  IF sub # None /\ sub # ""
                    THEN send_whatsapp_message(
                           [W3 EXCEPT !.ut = Put(@, phone_number,
                               [access_token |-> tok.access_token,
                                expires_at |-> t + expires_in,
                                linkedin_id_sub |-> sub])],
                           phone_number, "connected", <<>>)
                    ELSE send_whatsapp_message(W3, phone_number, "no_user_id", <<>>)
              ELSE send_whatsapp_message(W2, phone_number, "authentication_failed", <<>>)

\* the "auth" branch of handle_message
Auth(W, phone_number, t) ==
    IF ~LINKEDIN_CLIENT_ID
    THEN send_whatsapp_message(W, phone_number, "linkedin_not_configured", <<>>)
    ELSE LET W1 == get_oauth_url(W, phone_number, t)
         IN  [W1 EXCEPT !.sent = Append(@, [TextMsg(phone_number, "auth_url", <<>>)
                                   EXCEPT !.state = state_hash(phone_number, t)])]

\* the awaiting_edit branch storing the text as the commands read it
CaptureEdit_StoresLowerText(W, phone_number, message_text) ==
    LET W1 == [W EXCEPT !.pp = Put(@, phone_number, Strip(Lower(message_text)))]
        W2 == send_whatsapp_interactive_buttons(W1, phone_number, "edited_post",
                                                message_text, <<"approve", "cancel">>)
    IN  [W2 EXCEPT !.us = Put(@, phone_number, None)]

\* the awaiting_edit branch leaving user_states as it was
CaptureEdit_KeepsPhase(W, phone_number, message_text) ==
    LET W1 == [W EXCEPT !.pp = Put(@, phone_number, message_text)]
    IN  send_whatsapp_interactive_buttons(W1, phone_number, "edited_post",
                                          message_text, <<"approve", "cancel">>)

\* the awaiting_edit branch of handle_message: the text is the edited post
CaptureEdit(W, phone_number, message_text) ==
    LET W1 == [W EXCEPT !.pp = Put(@, phone_number, message_text)]
        W2 == send_whatsapp_interactive_buttons(W1, phone_number, "edited_post",
                                                message_text, <<"approve", "cancel">>)
    IN  [W2 EXCEPT !.us = Put(@, phone_number, None)]

\* the awaiting_regeneration_prompt branch clearing user_states after the generation
CaptureRegenerationPrompt_ClearsOnSuccess(W, phone_number, message_text, gen) ==
    LET W1 == [W EXCEPT !.uc = Put(@, phone_number, Append(Get(@, phone_number, <<>>),
                              Turn("user", RegenerationPrompt(message_text))))]
        W2 == send_whatsapp_message(W1, phone_number, "regenerating", <<>>)
        W3 == generate_post(W2, phone_number, gen)
    IN  IF phone_number \in DOMAIN W3.pp /\ W3.pp # W.pp
        THEN [W3 EXCEPT !.us = Put(@, phone_number, None)]
        ELSE W3

\* the awaiting_regeneration_prompt branch storing the prompt as an assistant turn
AppendPrompt_AsAssistant(W, phone_number, message_text) ==
    LET W1 == [W EXCEPT
                 !.uc = Put(@, phone_number,
                            Append(Get(@, phone_number, <<>>),
                                   Turn("assistant", RegenerationPrompt(message_text)))),
                 !.us = Put(@, phone_number, None)]
    IN  send_whatsapp_message(W1, phone_number, "regenerating", <<>>)

\* the awaiting_regeneration_prompt branch up to its await of generate_post
AppendPrompt(W, phone_number, message_text) ==
    LET W1 == [W EXCEPT
                 !.uc = Put(@, phone_number,
                            Append(Get(@, phone_number, <<>>),
                                   Turn("user", RegenerationPrompt(message_text)))),
                 !.us = Put(@, phone_number, None)]
    IN  send_whatsapp_message(W1, phone_number, "regenerating", <<>>)

\* the awaiting_regeneration_prompt branch of handle_message
CaptureRegenerationPrompt(W, phone_number, message_text, gen) ==
    generate_post(AppendPrompt(W, phone_number, message_text), phone_number, gen)

\* the default branch up to its await of generate_post
AppendIdea(W, phone_number, message_text) ==
    LET W1 == [W EXCEPT !.uc = Put(@, phone_number,
                                   Append(Get(@, phone_number, <<>>),
                                          Turn("user", message_text)))]
    IN  send_whatsapp_message(W1, phone_number, "generating", <<>>)

\* handle_message(phone_number, message_text)
handle_message(W, phone_number, message_text, t, gen, tok, sub) ==
    LET lower_text == Strip(Lower(message_text))
        current_user_state == Get(W.us, phone_number, None)
    IN
    IF current_user_state = "awaiting_edit" /\ phone_number \in DOMAIN W.pp
    THEN CaptureEdit(W, phone_number, message_text)
    ELSE IF current_user_state = "awaiting_regeneration_prompt"
    THEN CaptureRegenerationPrompt(W, phone_number, message_text, gen)
    ELSE IF lower_text = CmdStart \/ lower_text = CmdHelp
    THEN send_whatsapp_message(W, phone_number, "welcome", <<>>)
    ELSE IF lower_text = CmdAuth
    THEN Auth(W, phone_number, t)
    ELSE IF StartsWith(lower_text, CmdCode)
    THEN ExchangeCode(W, phone_number, lower_text, t, tok, sub)
    ELSE IF lower_text = CmdCancel
    THEN Cancel(W, phone_number, "operation_cancelled")
    ELSE IF lower_text = CmdRegenerate
    THEN Regenerate(W, phone_number)
    ELSE IF lower_text = CmdEdit
    THEN Edit(W, phone_number, "no_pending_edit_idea")
    ELSE generate_post(AppendIdea(W, phone_number, message_text), phone_number, gen)

-----------------------------------------------------------------------------
(* Button clicks *)

\* approve without a pending post, also clearing the phase
NothingToApprove_ClearsPhase(W, phone_number) ==
    send_whatsapp_message([W EXCEPT !.us = Put(@, phone_number, None)],
                          phone_number, "no_pending_approve", <<>>)

\* approve without a pending post
NothingToApprove(W, phone_number) ==
    send_whatsapp_message(W, phone_number, "no_pending_approve", <<>>)

\* the post was created, but the pending post is kept
PostingSucceeded_KeepsDraft(W, phone_number, post_content) ==
    send_whatsapp_message(W, phone_number, "published",
                          Prefix(post_content, ExcerptLen))

\* the post was created: the pending post is deleted, and the phase with it
PostingSucceeded_ClearsPhase(W, phone_number, post_content) ==
    send_whatsapp_message([W EXCEPT !.pp = Del(@, phone_number),
                                    !.us = Put(@, phone_number, None)],
                          phone_number, "published",
                          Prefix(post_content, ExcerptLen))

\* the post was created: the pending post is deleted, the message has an excerpt
PostingSucceeded(W, phone_number, post_content) ==
    send_whatsapp_message([W EXCEPT !.pp = Del(@, phone_number)],
                          phone_number, "published",
                          Prefix(post_content, ExcerptLen))

\* the post was not created, and the message has the excerpt only
PostingFailed_SendsExcerpt(W, phone_number, post_content, message) ==
    [W EXCEPT !.sent = Append(@,
        [TextMsg(phone_number, "posting_failed", Prefix(post_content, ExcerptLen))
            EXCEPT !.reason = message])]

\* the post was not created: the message has the reason and the whole post
PostingFailed(W, phone_number, post_content, message) ==
    [W EXCEPT !.sent = Append(@,
        [TextMsg(phone_number, "posting_failed", post_content)
            EXCEPT !.reason = message])]

\* the approve branch of handle_button_click; pub is what ugcPosts answers
Approve(W, phone_number, t, pub) ==
    IF phone_number \in DOMAIN W.pp
    THEN
      LET post_content == W.pp[phone_number]
          W1 == send_whatsapp_message(W, phone_number, "posting",
                                      Prefix(post_content, ExcerptLen))
          r  == post_to_linkedin(W1.ut, phone_number, post_content, t, pub)
          W2 == [W1 EXCEPT !.api = @ \o r.api]
      IN  IF r.success
          THEN PostingSucceeded(W2, phone_number, post_content)
          ELSE PostingFailed(W2, phone_number, post_content, r.message)
    ELSE NothingToApprove(W, phone_number)

\* handle_button_click(phone_number, button_id)
handle_button_click(W, phone_number, button_id, t, pub) ==
    IF button_id = "approve" THEN Approve(W, phone_number, t, pub)
    ELSE IF button_id = "regenerate_btn" THEN Regenerate(W, phone_number)
    ELSE IF button_id = "edit_btn" THEN Edit(W, phone_number, "no_pending_edit")
    ELSE IF button_id = "cancel_btn" THEN Cancel(W, phone_number, "creation_cancelled")
    ELSE W

-----------------------------------------------------------------------------
(* Two deliveries in flight.  The routes are coroutines of one event loop:   *)
(* a handler gives the loop to another request only where it awaits          *)
(* something that yields.  handle_message awaits generate_post and nothing   *)
(* else; handle_button_click awaits nothing.                                 *)

\* a generate_post that yields to the event loop while the generator answers
generate_post_suspends_AsyncClient == TRUE

\* whether "await generate_post(phone_number)" yields to the event loop:
\* generate_post awaits nothing, its calls to Anthropic and WhatsApp block
generate_post_suspends == FALSE

\* handle_message comes to "await generate_post(phone_number)"
AwaitsGeneration(W, phone_number, message_text) ==
    LET lower_text == Strip(Lower(message_text))
        current_user_state == Get(W.us, phone_number, None)
    IN  /\ ~(current_user_state = "awaiting_edit" /\ phone_number \in DOMAIN W.pp)
        /\ \/ current_user_state = "awaiting_regeneration_prompt"
           \/ /\ lower_text \notin {CmdStart, CmdHelp, CmdAuth, CmdCancel,
                                     CmdRegenerate, CmdEdit}
              /\ ~StartsWith(lower_text, CmdCode)

\* handle_message up to "await generate_post(phone_number)", or to its end
UntilGeneration(W, phone_number, message_text, t) ==
    IF ~AwaitsGeneration(W, phone_number, message_text)
    THEN handle_message(W, phone_number, message_text, t, GenError, TokError, None)
    ELSE IF Get(W.us, phone_number, None) = "awaiting_regeneration_prompt"
    THEN AppendPrompt(W, phone_number, message_text)
    ELSE AppendIdea(W, phone_number, message_text)

\* a webhook delivery: a text with what the generator will answer, or a click
TextDelivery(body, gen) == [kind |-> "text", body |-> body, button |-> "", gen |-> gen]
ButtonDelivery(button_id) ==
    [kind |-> "button", body |-> <<>>, button |-> button_id, gen |-> GenError]

\* the handler of a delivery run from its start to its end
Handle(W, phone_number, d, t) ==
    IF d.kind = "text"
    THEN handle_message(W, phone_number, d.body, t, d.gen, TokError, None)
    ELSE handle_button_click(W, phone_number, d.button, t, "exception")

\* the handler of a delivery run from its start to its first await, or to its end
FirstSegment(W, phone_number, d, t) ==
    IF d.kind = "text"
    THEN UntilGeneration(W, phone_number, d.body, t)
    ELSE handle_button_click(W, phone_number, d.button, t, "exception")

\* the event loop runs the handlers of deliveries d[1] and d[2] in the order
\* schedule gives their segments; R.started[h]: handler h has begun,
\* R.awaiting[h]: it stands at its await of generate_post.  The loop leaves a
\* handler that stands at an await only if that await yields.
RECURSIVE RunSchedule(_, _, _, _, _)
RunSchedule(R, phone_number, d, schedule, t) ==
    IF schedule = <<>> \/ ~R.ok THEN R
    ELSE
      LET h == Head(schedule)
          other == 3 - h
          R1 == IF R.awaiting[other] /\ ~generate_post_suspends
                THEN [R EXCEPT !.ok = FALSE]
                ELSE IF ~R.started[h]
                THEN [R EXCEPT
                        !.W = FirstSegment(R.W, phone_number, d[h], t),
                        !.started[h] = TRUE,
                        !.awaiting[h] = d[h].kind = "text"
                                        /\ AwaitsGeneration(R.W, phone_number, d[h].body)]
                ELSE IF R.awaiting[h]
                THEN [R EXCEPT !.W = generate_post(R.W, phone_number, d[h].gen),
                               !.awaiting[h] = FALSE]
                ELSE R
      IN  RunSchedule(R1, phone_number, d, Tail(schedule), t)

\* the orders in which the loop can take up two handlers of two segments each
Schedules == { sch \in [1..4 -> {1, 2}] :
                 Cardinality({ k \in 1..4 : sch[k] = 1 }) = 2 }

\* the dictionaries two concurrent deliveries of one identity can end with
ConcurrentOutcomes(W, phone_number, d, t) ==
    LET start == [ok |-> TRUE, W |-> W, started |-> <<FALSE, FALSE>>,
                  awaiting |-> <<FALSE, FALSE>>]
        runs == { RunSchedule(start, phone_number, d, sch, t) : sch \in Schedules }
    IN  { R.W : R \in { Q \in runs : Q.ok } }

\* the dictionaries after the two deliveries are handled one after the other
SequentialOutcomes(W, phone_number, d, t) ==
    { Handle(Handle(W, phone_number, d[1], t), phone_number, d[2], t),
      Handle(Handle(W, phone_number, d[2], t), phone_number, d[1], t) }

-----------------------------------------------------------------------------
(* The /callback route *)

\* oauth_callback: the page answered; it reads code only, and no dictionary
oauth_callback(state_from_linkedin, code) ==
    IF code # NoCode THEN "authentication_almost_complete"
    ELSE "authentication_failed"

-----------------------------------------------------------------------------
(* The state machine *)

\* the dictionaries as a handler finds them, nothing sent or called yet
World == [uc |-> user_conversations, pp |-> pending_posts, ut |-> user_tokens,
          us |-> user_states, os |-> oauth_states, sent |-> <<>>, api |-> <<>>]

\* whether event ev ended with a post created on LinkedIn
Published(ev) ==
    \E i \in 1..Len(ev.api) :
        ev.api[i].svc = "linkedin_ugcPosts" /\ ev.api[i].result = "created"

\* the record of the event being handled: its number, its input, what it sent and
\* called, and whether the same identity's previous event published a post
Event(kind, who) ==
    [n |-> last.n + 1, kind |-> kind, who |-> who, body |-> <<>>, button |-> "",
     state |-> NoState, code |-> NoCode, page |-> "", sent |-> <<>>, api |-> <<>>,
     follows_publish |-> (last.who = who /\ Published(last))]

Commit(W, ev) ==
    /\ user_conversations' = W.uc
    /\ pending_posts' = W.pp
    /\ user_tokens' = W.ut
    /\ user_states' = W.us
    /\ oauth_states' = W.os
    /\ last' = [ev EXCEPT !.sent = W.sent, !.api = W.api]
    /\ UNCHANGED <<client, LINKEDIN_CLIENT_ID, now, presented>>

Calls(W, svc) == { i \in 1..Len(W.api) : W.api[i].svc = svc }


Init ==
    /\ user_conversations = EmptyDict
    /\ pending_posts = EmptyDict
    /\ user_tokens = EmptyDict
    /\ user_states = EmptyDict
    /\ oauth_states = EmptyDict
    /\ client \in BOOLEAN
    /\ LINKEDIN_CLIENT_ID \in BOOLEAN
    /\ now = 0
    /\ presented = EmptyDict
    /\ last = [n |-> 0, kind |-> "init", who |-> "", body |-> <<>>, button |-> "",
               state |-> NoState, code |-> NoCode, page |-> "", sent |-> <<>>,
               api |-> <<>>, follows_publish |-> FALSE]

\* receive_webhook, a message of type "text"
TextMessage(phone_number, message_text) ==
    LET probe == handle_message(World, phone_number, message_text, now,
                                GenError, TokError, None)
        exchanged == { probe.api[i].content : i \in Calls(probe, "linkedin_accessToken") }
    IN  \E gen \in (IF Calls(probe, "anthropic") # {} THEN GenResponses ELSE {GenError}) :
        \E tok \in (IF exchanged = {} THEN {TokError}
                    ELSE IF exchanged \subseteq DOMAIN presented THEN TokenResponses
                    ELSE { r \in TokenResponses : ~r.has_access_token }) :
        \E sub \in (IF tok.has_access_token THEN SubResponses ELSE {None}) :
           Commit(handle_message(World, phone_number, message_text, now, gen, tok, sub),
                  [Event("text", phone_number) EXCEPT !.body = message_text])

\* receive_webhook, a message of type "interactive" / "button_reply"
ButtonClick(phone_number, button_id) ==
    LET probe == handle_button_click(World, phone_number, button_id, now, "exception")
    IN  \E pub \in (IF Calls(probe, "linkedin_ugcPosts") # {} THEN PublishResponses
                    ELSE {"exception"}) :
           Commit(handle_button_click(World, phone_number, button_id, now, pub),
                  [Event("button", phone_number) EXCEPT !.button = button_id])

ForgedState == <<"forged", 0>>

\* GET /callback?state=..&code=.. ; LinkedIn binds a code to one authorization
OAuthCallback(state_from_linkedin, code) ==
    /\ code # NoCode /\ code \in DOMAIN presented => presented[code] = state_from_linkedin
    /\ presented' = IF code # NoCode THEN Put(presented, code, state_from_linkedin)
                    ELSE presented
    /\ last' = [Event("callback", "") EXCEPT
                  !.state = state_from_linkedin, !.code = code,
                  !.page = oauth_callback(state_from_linkedin, code)]
    /\ UNCHANGED <<user_conversations, pending_posts, user_tokens, user_states,
                   oauth_states, client, LINKEDIN_CLIENT_ID, now>>

\* time.time() moves on
Tick ==
    /\ now < MaxTime
    /\ now' = now + 1
    /\ UNCHANGED <<user_conversations, pending_posts, user_tokens, user_states,
                   oauth_states, client, LINKEDIN_CLIENT_ID, presented, last>>

\* every identity sends every body and clicks every button
Next ==
    \/ \E p \in Identities, body \in Bodies :
          last.n < MaxEvents /\ TextMessage(p, body)
    \/ \E p \in Identities, b \in ButtonIds :
          last.n < MaxEvents /\ ButtonClick(p, b)
    \/ \E s \in (DOMAIN oauth_states) \cup {ForgedState}, c \in AuthCodes \cup {NoCode} :
          last.n < MaxEvents /\ OAuthCallback(s, c)
    \/ Tick

Spec == Init /\ [][Next]_vars

\* one identity connects, drafts, edits and publishes, on a configured server
FlowBodies == {Idea, SendCode}
FlowButtons == {"approve", "edit_btn", "regenerate_btn", "cancel_btn"}

InitFlow == Init /\ client /\ LINKEDIN_CLIENT_ID

NextFlow ==
    \/ \E body \in FlowBodies :
          last.n < MaxFlowEvents /\ TextMessage("p1", body)
    \/ \E b \in FlowButtons :
          last.n < MaxFlowEvents /\ ButtonClick("p1", b)
    \/ \E c \in AuthCodes :
          last.n < MaxFlowEvents /\ OAuthCallback(ForgedState, c)
    \/ Tick

SpecFlow == InitFlow /\ [][NextFlow]_vars

\* one identity drafts a post, edits it and answers the choices it is offered
EditBodies == {Idea}
EditButtons == {"edit_btn", "cancel_btn", "cancel"}

NextEdit ==
    \/ \E body \in EditBodies :
          last.n < MaxEditEvents /\ TextMessage("p1", body)
    \/ \E b \in EditButtons :
          last.n < MaxEditEvents /\ ButtonClick("p1", b)
    \/ Tick

SpecEdit == InitFlow /\ [][NextEdit]_vars

-----------------------------------------------------------------------------
(* What is observed of a session: its phase (None when no phase is stored),   *)
(* its history (empty when none is stored), its draft and its authorization.  *)

NoAuthorization == [access_token |-> "", expires_at |-> 0, linkedin_id_sub |-> ""]

Session(uc, pp, ut, us, p) ==
    [phase         |-> Get(us, p, None),
     history       |-> Get(uc, p, <<>>),
     has_draft     |-> p \in DOMAIN pp,
     draft         |-> Get(pp, p, <<>>),
     authorized    |-> p \in DOMAIN ut,
     authorization |-> Get(ut, p, NoAuthorization)]

Before(p) == Session(user_conversations, pending_posts, user_tokens, user_states, p)
After(p)  == Session(user_conversations', pending_posts', user_tokens', user_states', p)

\* this step handles an event of the given kind
Handles(kind) == last'.n = last.n + 1 /\ last'.kind = kind

Phases == {None, "awaiting_edit", "awaiting_regeneration_prompt"}

\* the stored authorization of p can be used at time t
ValidAuthorization(ut, p, t) ==
    /\ p \in DOMAIN ut
    /\ ut[p].access_token # ""
    /\ ut[p].linkedin_id_sub # ""
    /\ t <= ut[p].expires_at

-----------------------------------------------------------------------------
(* C1: after any sequence of text messages and button clicks, with any       *)
(* outcome of generation and publishing, every stored phase is None,         *)
(* awaiting_edit or awaiting_regeneration_prompt (Idle is None or absent).   *)
C1_PhaseIsDefined ==
    /\ DOMAIN user_states \subseteq Identities
    /\ \A p \in DOMAIN user_states : user_states[p] \in Phases

\* both capture phases are stored at once, one for each identity
C1_Witness ==
    /\ last.kind = "button"
    /\ \E p, q \in DOMAIN user_states :
          /\ user_states[p] = "awaiting_edit"
          /\ user_states[q] = None

(* C2: a text message handled in a phase other than Idle leaves the phase    *)
(* Idle, and one handled in awaiting_edit makes its body the pending draft,  *)
(* whether or not a draft is pending at that moment.                         *)
C2_CaptureIsOneShot ==
    [][ \A p \in Identities :
          (Handles("text") /\ last'.who = p /\ Before(p).phase # None)
          => /\ After(p).phase = None
             /\ Before(p).phase = "awaiting_edit"
                  => (After(p).has_draft /\ After(p).draft = last'.body) ]_vars

(* C3: when generation fails while a text message is handled (no generator   *)
(* configured, or the call raises), the user gets an apology and the session *)
(* is as it was before the message: phase Idle, and history, draft and       *)
(* authorization unchanged.                                                  *)
GenerationFailed(ev) ==
    /\ ev.sent # <<>>
    /\ ev.sent[Len(ev.sent)].msg \in {"generation_unavailable", "generation_error"}

C3_FailedGenerationChangesNothing ==
    [][ \A p \in Identities :
          (Handles("text") /\ last'.who = p /\ GenerationFailed(last'))
          => /\ After(p).phase = None
             /\ After(p) = Before(p) ]_vars

(* C4: a state token issued by the auth command is consumed by the first     *)
(* redirect that carries it: after that redirect the handshake record is     *)
(* gone, and a later redirect with the same token is answered as failed.     *)
Consumed(s) == \E c \in DOMAIN presented : presented[c] = s

C4_StateTokenIsSingleUse ==
    [][ (Handles("callback") /\ last'.state \in DOMAIN oauth_states)
        => /\ last'.state \notin DOMAIN oauth_states'
           /\ Consumed(last'.state) => last'.page = "authentication_failed" ]_vars

(* C5: a redirect whose state token is not in the handshake mapping is       *)
(* answered as authentication failed, and changes no session.                *)
C5_UnknownStateIsRejected ==
    [][ (Handles("callback") /\ last'.state \notin DOMAIN oauth_states)
        => /\ last'.page = "authentication_failed"
           /\ \A p \in Identities : After(p) = Before(p) ]_vars

(* C6: when a code exchange succeeds, the authorization is stored for the    *)
(* identity that issued the state token the code was presented with, and     *)
(* for no other identity.                                                    *)
Connected(ev) ==
    ev.sent # <<>> /\ ev.sent[Len(ev.sent)].msg = "connected"

C6_AuthorizationGoesToIssuer ==
    [][ \A p \in Identities :
          (Handles("text") /\ last'.who = p /\ Connected(last'))
          => /\ \A i \in 1..Len(last'.api) :
                  ( /\ last'.api[i].svc = "linkedin_accessToken"
                    /\ last'.api[i].content \in DOMAIN presented
                    /\ presented[last'.api[i].content] \in DOMAIN oauth_states )
                  => oauth_states[presented[last'.api[i].content]] = p
             /\ \A q \in Identities \ {p} :
                  After(q).authorization = Before(q).authorization ]_vars

(* C7: approve on a session without a pending draft, in any phase, changes   *)
(* no dictionary, calls neither LinkedIn nor the generator, and sends        *)
(* exactly one message, the one that says there is nothing to approve.       *)
C7_ApproveWithoutDraft ==
    [][ \A p \in Identities :
          (Handles("button") /\ last'.who = p /\ last'.button = "approve"
             /\ ~Before(p).has_draft)
          => /\ user_conversations' = user_conversations
             /\ pending_posts' = pending_posts
             /\ user_tokens' = user_tokens
             /\ user_states' = user_states
             /\ oauth_states' = oauth_states
             /\ last'.api = <<>>
             /\ last'.sent = <<TextMsg(p, "no_pending_approve", <<>>)>> ]_vars

\* approve was clicked without a draft while an edited post was awaited
C7_Witness ==
    /\ last.kind = "button" /\ last.button = "approve"
    /\ last.who \notin DOMAIN pending_posts
    /\ Get(user_states, last.who, None) = "awaiting_edit"
    /\ Len(last.sent) = 1 /\ last.sent[1].msg = "no_pending_approve"

(* C8: approve with a usable authorization and pending draft X makes one     *)
(* call to ugcPosts, with X; if the post is created the draft is removed and *)
(* the success message sent; if not, the draft is still X and the failure    *)
(* message carries all of X.                                                 *)
C8_ApprovePublishesDraft ==
    [][ \A p \in Identities :
          (Handles("button") /\ last'.who = p /\ last'.button = "approve"
             /\ Before(p).has_draft /\ ValidAuthorization(user_tokens, p, now))
          => LET X == Before(p).draft
                 final == last'.sent[Len(last'.sent)]
             IN  /\ Len(last'.api) = 1
                 /\ last'.api[1].svc = "linkedin_ugcPosts"
                 /\ last'.api[1].content = X
                 /\ last'.api[1].result = "created"
                      => (~After(p).has_draft /\ final.msg = "published")
                 /\ last'.api[1].result # "created"
                      => /\ After(p).has_draft /\ After(p).draft = X
                         /\ final.msg = "posting_failed" /\ final.text = X ]_vars

\* a draft longer than the excerpt could not be published
C8_Witness ==
    /\ last.kind = "button" /\ last.button = "approve"
    /\ Len(last.api) = 1 /\ last.api[1].result # "created"
    /\ last.who \in DOMAIN pending_posts
    /\ Len(pending_posts[last.who]) > ExcerptLen
    /\ last.sent[Len(last.sent)].text = pending_posts[last.who]

(* C9: right after a post is created the session has no draft, and an        *)
(* approve that is the identity's next event calls LinkedIn no more and      *)
(* answers as the approve without a draft does.                              *)
C9_NoSecondPublish ==
    /\ (last.kind = "button" /\ Published(last)) => last.who \notin DOMAIN pending_posts
    /\ (last.kind = "button" /\ last.button = "approve" /\ last.follows_publish)
         => /\ last.api = <<>>
            /\ last.sent = <<TextMsg(last.who, "no_pending_approve", <<>>)>>

\* approve was clicked again right after the post was created
C9_Witness ==
    /\ last.kind = "button" /\ last.button = "approve" /\ last.follows_publish
    /\ last.sent = <<TextMsg(last.who, "no_pending_approve", <<>>)>>

(* C10: approve with a draft and a stored authorization whose expires_at has *)
(* passed calls LinkedIn not at all, sends the failure message that asks to  *)
(* reconnect, and leaves the authorization and the draft in place.           *)
ReconnectReasons == {"token_not_found", "sub_not_found", "token_expired"}

C10_ExpiredAuthorization ==
    [][ \A p \in Identities :
          (Handles("button") /\ last'.who = p /\ last'.button = "approve"
             /\ Before(p).has_draft /\ Before(p).authorized
             /\ now > Before(p).authorization.expires_at)
          => LET final == last'.sent[Len(last'.sent)]
             IN  /\ last'.api = <<>>
                 /\ final.msg = "posting_failed"
                 /\ final.reason \in ReconnectReasons
                 /\ After(p).authorization = Before(p).authorization
                 /\ After(p).authorized
                 /\ After(p).has_draft /\ After(p).draft = Before(p).draft ]_vars

\* approve was refused because the stored token had expired
C10_Witness ==
    /\ last.kind = "button" /\ last.button = "approve"
    /\ last.who \in DOMAIN user_tokens
    /\ now > user_tokens[last.who].expires_at
    /\ last.sent[Len(last.sent)].reason = "token_expired"
    /\ last.api = <<>>

-----------------------------------------------------------------------------
(* A text is read as a command unless a capture phase takes it: awaiting_edit *)
(* with a pending post, or awaiting_regeneration_prompt.                      *)
Captured(p) ==
    \/ Before(p).phase = "awaiting_edit" /\ Before(p).has_draft
    \/ Before(p).phase = "awaiting_regeneration_prompt"

\* this step handles command cmd of identity p, typed or clicked as button
Commands(p, cmd, button) ==
    \/ Handles("button") /\ last'.who = p /\ last'.button = button
    \/ Handles("text") /\ last'.who = p /\ ~Captured(p)
          /\ Strip(Lower(last'.body)) = cmd

(* C11: a regenerate command on a history that is not empty removes the last *)
(* turn when it is an assistant turn and no other turn, leaves the history   *)
(* as it is when the last turn is a user turn, and in both cases makes the   *)
(* phase awaiting_regeneration_prompt.                                       *)
C11_RegenerateRemovesLastAssistantTurn ==
    [][ \A p \in Identities :
          (Commands(p, CmdRegenerate, "regenerate_btn") /\ Before(p).history # <<>>)
          => LET h == Before(p).history
             IN  /\ h[Len(h)].role = "assistant"
                      => After(p).history = SubSeq(h, 1, Len(h) - 1)
                 /\ h[Len(h)].role # "assistant" => After(p).history = h
                 /\ After(p).phase = "awaiting_regeneration_prompt" ]_vars

\* regenerate was typed after a generated post: the user turn alone is left
C11_Witness ==
    /\ last.kind = "text" /\ Strip(Lower(last.body)) = CmdRegenerate
    /\ last.who \in DOMAIN pending_posts
    /\ Get(user_conversations, last.who, <<>>) = <<Turn("user", Idea)>>
    /\ Get(user_states, last.who, None) = "awaiting_regeneration_prompt"

(* C12: in a capture phase a command word is content.  In awaiting_edit with *)
(* a pending post the text becomes the pending post as typed; awaiting a     *)
(* regeneration prompt it is appended as the prompt turn; in neither is a    *)
(* handshake record created, an authorization stored or the post removed.    *)
CommandWords ==
    { b \in Bodies :
        \/ Strip(Lower(b)) \in {CmdStart, CmdHelp, CmdAuth, CmdCancel, CmdRegenerate, CmdEdit}
        \/ StartsWith(Strip(Lower(b)), CmdCode) }

C12_CommandWordsAreCaptured ==
    [][ \A p \in Identities :
          (Handles("text") /\ last'.who = p /\ last'.body \in CommandWords)
          => /\ (Before(p).phase = "awaiting_edit" /\ Before(p).has_draft)
                  => /\ After(p).has_draft /\ After(p).draft = last'.body
                     /\ After(p).history = Before(p).history
             /\ Before(p).phase = "awaiting_regeneration_prompt"
                  => LET h == Before(p).history
                         prompt == Turn("user", RegenerationPrompt(last'.body))
                     IN  /\ Len(After(p).history) > Len(h)
                         /\ SubSeq(After(p).history, 1, Len(h) + 1) = Append(h, prompt)
                         /\ Before(p).has_draft => After(p).has_draft
             /\ Captured(p)
                  => /\ oauth_states' = oauth_states
                     /\ user_tokens' = user_tokens
                     /\ \A i \in 1..Len(last'.api) : last'.api[i].svc = "anthropic" ]_vars

\* " Edit\n" was typed while an edited post was awaited, and is the pending post
C12_Witness ==
    /\ last.kind = "text" /\ last.body = <<" ","E","d","i","t","\n">>
    /\ last.sent # <<>> /\ last.sent[1].msg = "edited_post"
    /\ Get(pending_posts, last.who, <<>>) = last.body

(* C13: on a fresh session a text that is no command appends one user turn  *)
(* with the text and runs the generation on that history; when a post comes  *)
(* back it is appended as the assistant turn and is the pending post, the    *)
(* phase is Idle, and approve, regenerate, edit and cancel are offered after *)
(* the post has been sent.  Without a configured generator the generation    *)
(* fails before any request.                                                 *)
Fresh(p) ==
    /\ p \notin DOMAIN user_conversations
    /\ p \notin DOMAIN pending_posts
    /\ p \notin DOMAIN user_states
    /\ p \notin DOMAIN user_tokens

C13_FirstIdeaIsGenerated ==
    [][ \A p \in Identities :
          (Handles("text") /\ last'.who = p /\ Fresh(p)
             /\ last'.body \in Bodies \ CommandWords)
          => LET turn == Turn("user", last'.body)
                 ev == last'
             IN  /\ After(p).phase = None
                 /\ After(p).history # <<>> /\ After(p).history[1] = turn
                 /\ ev.sent[1] = TextMsg(p, "generating", <<>>)
                 /\ client => /\ Len(ev.api) = 1
                              /\ ev.api[1].svc = "anthropic"
                              /\ ev.api[1].content = <<turn>>
                 /\ ~client => ev.api = <<>> /\ GenerationFailed(ev)
                 /\ (ev.api # <<>> /\ ev.api[1].result = "ok")
                      => \E post \in GeneratedPosts :
                           /\ After(p).history = <<turn, Turn("assistant", post)>>
                           /\ After(p).has_draft /\ After(p).draft = post
                           /\ Len(ev.sent) = 4
                           /\ ev.sent[2] = TextMsg(p, "generated_post", post)
                           /\ ev.sent[3].type = "interactive"
                           /\ ev.sent[4].type = "interactive"
                           /\ ev.sent[3].buttons \o ev.sent[4].buttons
                                = <<"approve", "regenerate_btn", "edit_btn", "cancel_btn">>
                 /\ (ev.api = <<>> \/ ev.api[1].result # "ok")
                      => After(p).history = <<turn>> /\ ~After(p).has_draft ]_vars

\* the first idea of an identity came back as a post
C13_Witness ==
    /\ last.kind = "text" /\ last.body = Idea
    /\ Len(last.sent) = 4 /\ last.sent[2].msg = "generated_post"
    /\ Len(Get(user_conversations, last.who, <<>>)) = 2
    /\ last.who \notin DOMAIN user_tokens
    /\ Get(pending_posts, last.who, <<>>) = last.sent[2].text

(* C14: in the awaiting_edit phase with a pending post, a text becomes the   *)
(* pending post exactly as typed, the phase is Idle again, one choice with   *)
(* the two options approve and cancel is sent and nothing else, no request   *)
(* goes to the generator and the history is unchanged.                       *)
C14_EditCapture ==
    [][ \A p \in Identities :
          (Handles("text") /\ last'.who = p
             /\ Before(p).phase = "awaiting_edit" /\ Before(p).has_draft)
          => /\ After(p).has_draft /\ After(p).draft = last'.body
             /\ After(p).phase = None
             /\ Len(last'.sent) = 1
             /\ last'.sent[1].type = "interactive"
             /\ last'.sent[1].to = p
             /\ last'.sent[1].buttons = <<"approve", "cancel">>
             /\ last'.api = <<>>
             /\ After(p).history = Before(p).history ]_vars

\* an edited text that is not a command word replaced a different pending post
C14_Witness ==
    /\ last.kind = "text" /\ last.body = Idea
    /\ last.sent # <<>> /\ last.sent[1].msg = "edited_post"
    /\ last.api = <<>>
    /\ Get(pending_posts, last.who, <<>>) = Idea
    /\ Get(user_states, last.who, None) = None
    /\ last.who \in DOMAIN user_states

(* C15: in the awaiting_regeneration_prompt phase every text puts the phase *)
(* back to Idle, appends one user turn that carries the text as the          *)
(* considerations of the regeneration, sends the "regenerating" message and  *)
(* then runs the generation; the phase is Idle whether the generation gives  *)
(* a post or fails.                                                          *)
C15_RegenerationPromptCapture ==
    [][ \A p \in Identities :
          (Handles("text") /\ last'.who = p
             /\ Before(p).phase = "awaiting_regeneration_prompt")
          => LET h == Before(p).history
                 turn == Turn("user", RegenerationPrompt(last'.body))
                 ev == last'
             IN  /\ After(p).phase = None
                 /\ ev.sent[1] = TextMsg(p, "regenerating", <<>>)
                 /\ Len(ev.sent) > 1
                 /\ client => /\ Len(ev.api) = 1
                              /\ ev.api[1].svc = "anthropic"
                              /\ ev.api[1].content = Append(h, turn)
                 /\ ~client => ev.api = <<>> /\ GenerationFailed(ev)
                 /\ IF ev.api # <<>> /\ ev.api[1].result = "ok"
                    THEN \E post \in GeneratedPosts :
                           /\ After(p).history = h \o <<turn, Turn("assistant", post)>>
                           /\ After(p).draft = post
                    ELSE /\ After(p).history = Append(h, turn)
                         /\ GenerationFailed(ev)
                         /\ After(p).has_draft = Before(p).has_draft
                         /\ After(p).draft = Before(p).draft ]_vars

\* the generation that followed the considerations failed and the phase is Idle
C15_Witness ==
    /\ last.kind = "text"
    /\ last.sent # <<>> /\ last.sent[1].msg = "regenerating"
    /\ last.api # <<>> /\ last.api[1].result # "ok"
    /\ last.who \in DOMAIN user_states /\ user_states[last.who] = None
    /\ LET h == Get(user_conversations, last.who, <<>>)
       IN  h # <<>> /\ h[Len(h)] = Turn("user", RegenerationPrompt(last.body))

(* C16: a click on a cancel button, in any phase and with or without a       *)
(* pending post, leaves the identity with no pending post and phase Idle,    *)
(* keeps its history and its authorization, and sends one "cancelled"        *)
(* message.  The cancel buttons are the one sent after a generated post and  *)
(* the one sent with the choice that follows an edited post.                 *)
Offered(p, button_id) ==
    /\ last.who = p
    /\ \E i \in 1..Len(last.sent) :
          /\ last.sent[i].type = "interactive"
          /\ last.sent[i].to = p
          /\ \E j \in 1..Len(last.sent[i].buttons) : last.sent[i].buttons[j] = button_id

CancelClick(p) ==
    /\ Handles("button") /\ last'.who = p
    /\ \/ last'.button = "cancel_btn"
       \/ last'.button = "cancel" /\ Offered(p, "cancel")

C16_CancelButtonClears ==
    [][ \A p \in Identities :
          CancelClick(p)
          => /\ ~After(p).has_draft
             /\ After(p).phase = None
             /\ After(p).history = Before(p).history
             /\ After(p).authorized = Before(p).authorized
             /\ After(p).authorization = Before(p).authorization
             /\ Len(last'.sent) = 1
             /\ last'.sent[1].msg = "creation_cancelled" ]_vars

(* C17: an edit command, typed or clicked, for an identity without a pending *)
(* post, and a regenerate command, typed or clicked, for an identity whose   *)
(* history is empty or absent, change no dictionary: phase, history, pending *)
(* post and authorization are as before, and the only thing sent is one      *)
(* message saying there is nothing to edit or to regenerate.                 *)
NothingToDo == {"no_pending_edit_idea", "no_pending_edit", "no_context_to_regenerate"}

C17_FailedPreconditionChangesNothing ==
    [][ \A p \in Identities :
          (\/ Commands(p, CmdEdit, "edit_btn") /\ ~Before(p).has_draft
           \/ Commands(p, CmdRegenerate, "regenerate_btn") /\ Before(p).history = <<>>)
          => /\ After(p) = Before(p)
             /\ UNCHANGED <<user_conversations, pending_posts, user_tokens,
                            user_states, oauth_states>>
             /\ Len(last'.sent) = 1
             /\ last'.sent[1].type = "text"
             /\ last'.sent[1].to = p
             /\ last'.sent[1].msg \in NothingToDo
             /\ last'.api = <<>> ]_vars

\* a typed edit command met a history and no pending post
C17_Witness ==
    /\ last.kind = "text" /\ Strip(Lower(last.body)) = CmdEdit
    /\ Len(last.sent) = 1 /\ last.sent[1].msg = "no_pending_edit_idea"
    /\ last.who \notin DOMAIN pending_posts
    /\ Get(user_conversations, last.who, <<>>) # <<>>
    /\ Get(user_states, last.who, None) = None

(* C18: handling a message or a click of one identity never changes the      *)
(* phase, history, pending post or authorization of another identity, and    *)
(* every state token that maps to another identity still maps to it.  The    *)
(* handlers run to completion (they await nothing that suspends), so events  *)
(* of different identities interleave as whole events.                       *)
C18_IdentitiesAreIsolated ==
    [][ \A p, q \in Identities :
          ((Handles("text") \/ Handles("button")) /\ last'.who = p /\ q # p)
          => /\ After(q) = Before(q)
             /\ (q \in DOMAIN user_states) = (q \in DOMAIN user_states')
             /\ (q \in DOMAIN user_conversations) = (q \in DOMAIN user_conversations')
             /\ \A s \in DOMAIN oauth_states :
                   oauth_states[s] = q
                   => s \in DOMAIN oauth_states' /\ oauth_states'[s] = q
             /\ \A i \in 1..Len(last'.sent) : last'.sent[i].to = p ]_vars

\* two identities asked for authorization in the same second, and each has a
\* session of its own
C18_Witness ==
    /\ last.kind = "text" /\ last.who = "p1" /\ Strip(Lower(last.body)) = CmdAuth
    /\ \E s1, s2 \in DOMAIN oauth_states :
          /\ oauth_states[s1] = "p1" /\ oauth_states[s2] = "p2"
          /\ s1[2] = s2[2]
    /\ "p2" \in DOMAIN user_conversations
    /\ "p1" \notin DOMAIN user_conversations

(* C19: no interactive message carries more than three buttons, and the four *)
(* buttons that follow a generated post, a list longer than that maximum,    *)
(* are sent in ceil(4/3) = 2 successive interactive messages whose button    *)
(* lists, put end to end, are the four buttons in their order, none twice    *)
(* and none left out: approve, regenerate_btn, edit_btn, then cancel_btn.    *)
RECURSIVE Concat(_)
Concat(lists) ==
    IF lists = <<>> THEN <<>> ELSE Head(lists) \o Concat(Tail(lists))

\* the button lists of the interactive messages sent from index i on
ChoiceCalls(sent, i) ==
    [k \in 1..(Len(sent) - i + 1) |-> sent[i + k - 1].buttons]

CeilDiv(n, d) == (n + d - 1) \div d

C19_ChoiceIsSplit ==
    [][ \A p \in Identities :
          (Handles("text") \/ Handles("button")) /\ last'.who = p
          => LET sent == last'.sent IN
             /\ \A i \in 1..Len(sent) :
                   sent[i].type = "interactive"
                   => Len(sent[i].buttons) \in 1..MaxButtons
             /\ \A i \in 1..Len(sent) :
                   sent[i].msg = "generated_post"
                   => LET calls == ChoiceCalls(sent, i + 1) IN
                      /\ Len(PostButtons) > MaxButtons
                      /\ Len(calls) = CeilDiv(Len(PostButtons), MaxButtons)
                      /\ \A k \in 1..Len(calls) :
                            sent[i + k].type = "interactive" /\ sent[i + k].to = p
                      /\ Concat(calls) = PostButtons
                      /\ calls = << <<"approve", "regenerate_btn", "edit_btn">>,
                                    <<"cancel_btn">> >> ]_vars

\* a regenerated post was followed by the two interactive messages
C19_Witness ==
    /\ last.kind = "text"
    /\ Len(last.sent) = 4
    /\ last.sent[1].msg = "regenerating"
    /\ last.sent[2].msg = "generated_post"
    /\ Len(last.sent[3].buttons) = MaxButtons
    /\ last.sent[4].buttons = <<"cancel_btn">>

(* C20: a pending post stays pending until a post is created on LinkedIn or  *)
(* a cancel command is handled; its text changes only when a generation      *)
(* gives a new post or an edited text is captured.  Nothing else removes or  *)
(* changes it: after a regenerate command the post that was pending is still *)
(* pending, and it is what the next approve sends to LinkedIn.               *)
Cancelled(ev) ==
    /\ Len(ev.sent) = 1
    /\ ev.sent[1].msg \in {"operation_cancelled", "creation_cancelled"}

Generated(ev, post) ==
    \E i \in 1..Len(ev.sent) :
        ev.sent[i].msg = "generated_post" /\ ev.sent[i].text = post

C20_DraftStaysUntilPublishOrCancel ==
    [][ \A p \in Identities :
          Before(p).has_draft
          => /\ ~After(p).has_draft
                  => /\ last'.n = last.n + 1 /\ last'.who = p
                     /\ \/ last'.kind = "button" /\ last'.button = "approve"
                              /\ Published(last')
                        \/ Commands(p, CmdCancel, "cancel_btn") /\ Cancelled(last')
             /\ (After(p).has_draft /\ After(p).draft # Before(p).draft)
                  => /\ Handles("text") /\ last'.who = p
                     /\ \/ Generated(last', After(p).draft)
                        \/ /\ Before(p).phase = "awaiting_edit"
                           /\ After(p).draft = last'.body
                           /\ last'.api = <<>>
             /\ Commands(p, CmdRegenerate, "regenerate_btn")
                  => After(p).has_draft /\ After(p).draft = Before(p).draft
             /\ (Handles("button") /\ last'.who = p /\ last'.button = "approve"
                   /\ last.who = p /\ last.sent # <<>>
                   /\ last.sent[1].msg = "provide_changes")
                  => \A i \in 1..Len(last'.api) :
                        last'.api[i].svc = "linkedin_ugcPosts"
                        => last'.api[i].content = Before(p).draft ]_vars

\* the post that was pending through a regenerate command was created on LinkedIn
C20_Witness ==
    /\ last.kind = "button" /\ last.button = "approve"
    /\ Published(last)
    /\ last.who \notin DOMAIN pending_posts
    /\ Get(user_states, last.who, None) = "awaiting_regeneration_prompt"
    /\ \E i \in 1..Len(last.api) :
          last.api[i].svc = "linkedin_ugcPosts" /\ last.api[i].content \in GeneratedPosts

(* C21: the text "auth" handled in phase Idle leaves the phase, the history, *)
(* the pending post and the authorization of the identity as they were, and  *)
(* oauth_states then maps the state token of the URL sent to the user to the *)
(* identity that asked, its other records unchanged.                         *)
AuthInIdle(p) ==
    /\ Handles("text") /\ last'.who = p
    /\ Strip(Lower(last'.body)) = CmdAuth
    /\ Before(p).phase = None

IssuesToken(p) ==
    /\ Len(last'.sent) = 1
    /\ last'.sent[1].msg = "auth_url" /\ last'.sent[1].to = p
    /\ LET token == last'.sent[1].state IN
       /\ token # NoState
       /\ token \in DOMAIN oauth_states'
       /\ oauth_states'[token] = p
       /\ DOMAIN oauth_states' = DOMAIN oauth_states \cup {token}
       /\ \A s \in DOMAIN oauth_states \ {token} : oauth_states'[s] = oauth_states[s]

C21_AuthIssuesToken ==
    [][ \A p \in Identities :
          AuthInIdle(p)
          => /\ After(p) = Before(p)
             /\ IssuesToken(p) ]_vars

(* C21 as amended: the same on a server that has its LinkedIn client id; on  *)
(* a server without it the user is told that LinkedIn is not configured and  *)
(* nothing changes, oauth_states included.                                   *)
C21_AuthIssuesTokenWhenConfigured ==
    [][ \A p \in Identities :
          AuthInIdle(p)
          => /\ After(p) = Before(p)
             /\ last'.api = <<>>
             /\ LINKEDIN_CLIENT_ID => IssuesToken(p)
             /\ ~LINKEDIN_CLIENT_ID
                  => /\ oauth_states' = oauth_states
                     /\ Len(last'.sent) = 1
                     /\ last'.sent[1].msg = "linkedin_not_configured" ]_vars

\* an identity that has a pending post was sent a URL with its state token
C21_Witness ==
    /\ last.kind = "text" /\ last.body = CmdAuth
    /\ Len(last.sent) = 1 /\ last.sent[1].msg = "auth_url"
    /\ last.sent[1].state \in DOMAIN oauth_states
    /\ oauth_states[last.sent[1].state] = last.who
    /\ last.who \in DOMAIN pending_posts
    /\ Get(user_states, last.who, None) = None

(* C22: two events of one identity handled concurrently can end in a session *)
(* that neither of the two sequential orders gives (a lost update): in every *)
(* state in which a text of the identity starts a generation, the case in    *)
(* which a handler reads the session before the generation and writes it     *)
(* after, some pair of deliveries has such an interleaving.                  *)
OtherIdea == <<"Y","o">>

\* the deliveries tried, and the pairs of them (a pair is tried in both orders)
RaceDeliveries ==
    << TextDelivery(Idea, CHOOSE gen \in GenResponses : gen.status = "ok"),
       TextDelivery(Idea, GenError),
       TextDelivery(OtherIdea, CHOOSE gen \in GenResponses : gen.status = "ok"),
       TextDelivery(CmdCancel, GenError),
       ButtonDelivery("regenerate_btn"),
       ButtonDelivery("edit_btn"),
       ButtonDelivery("cancel_btn") >>

RacePairs ==
    { <<RaceDeliveries[m[1]], RaceDeliveries[m[2]]>> :
        m \in { n \in (DOMAIN RaceDeliveries) \X (DOMAIN RaceDeliveries) : n[1] <= n[2] } }

SessionOf(W, p) == Session(W.uc, W.pp, W.ut, W.us, p)

LostUpdate(W, p) ==
    \E d \in RacePairs :
       \E F \in ConcurrentOutcomes(W, p, d, now) :
          \A G \in SequentialOutcomes(W, p, d, now) :
             SessionOf(F, p) # SessionOf(G, p)

C22_ConcurrentEventsLoseUpdate ==
    \A p \in Identities :
       AwaitsGeneration(World, p, Idea) => LostUpdate(World, p)

(* C22 as amended: two events of one identity that are in flight together    *)
(* are handled one after the other, in either order: every way the event     *)
(* loop can run the two handlers ends with the dictionaries, the messages    *)
(* sent and the calls made of one of the two sequential orders, and each of  *)
(* the two orders can happen.                                                *)
C22_HandlersRunOneAfterTheOther ==
    \A p \in Identities :
       \A d \in RacePairs :
          ConcurrentOutcomes(World, p, d, now) = SequentialOutcomes(World, p, d, now)

\* an identity with a pending post for which the order of two deliveries, one
\* of them starting a generation, decides the session
C22_Witness ==
    /\ "p1" \in DOMAIN pending_posts
    /\ AwaitsGeneration(World, "p1", OtherIdea)
    /\ \E gen \in GenResponses :
          LET d == <<TextDelivery(OtherIdea, gen), ButtonDelivery("cancel_btn")>>
              a == Handle(Handle(World, "p1", d[1], now), "p1", d[2], now)
              b == Handle(Handle(World, "p1", d[2], now), "p1", d[1], now)
          IN  /\ gen.status = "ok"
              /\ SessionOf(a, "p1") # SessionOf(b, "p1")
              /\ {a, b} = ConcurrentOutcomes(World, "p1", d, now)

(* C23: a click on approve never changes the phase or the history of the     *)
(* identity, with or without a pending post and whether or not the post is   *)
(* created on LinkedIn; of the session only the pending post can change: it  *)
(* is removed when the post is created, and is as before otherwise.          *)
C23_ApproveChangesOnlyTheDraft ==
    [][ \A p \in Identities :
          (Handles("button") /\ last'.who = p /\ last'.button = "approve")
          => /\ After(p).phase = Before(p).phase
             /\ After(p).history = Before(p).history
             /\ After(p).authorized = Before(p).authorized
             /\ After(p).authorization = Before(p).authorization
             /\ UNCHANGED <<user_states, user_conversations, user_tokens, oauth_states>>
             /\ Published(last') => Before(p).has_draft /\ ~After(p).has_draft
             /\ ~Published(last')
                  => /\ After(p).has_draft = Before(p).has_draft
                     /\ After(p).draft = Before(p).draft ]_vars

\* a post was created while the identity was waiting for an edited text
C23_Witness ==
    /\ last.kind = "button" /\ last.button = "approve"
    /\ Published(last)
    /\ last.who \notin DOMAIN pending_posts
    /\ Get(user_states, last.who, None) = "awaiting_edit"
    /\ Get(user_conversations, last.who, <<>>) # <<>>

(* C24: in every reachable state an identity whose phase is awaiting_edit    *)
(* has a pending post.                                                       *)
C24_AwaitingEditHasDraft ==
    \A p \in Identities :
       Get(user_states, p, None) = "awaiting_edit" => p \in DOMAIN pending_posts

(* C25: after every step, a history that is not empty starts with a user     *)
(* turn and every assistant turn in it comes right after a user turn (no two *)
(* assistant turns in a row); and a history that was not empty before the    *)
(* step is not empty after it.  (The histories of the initial state are      *)
(* empty.)                                                                   *)
WellFormedHistory(h) ==
    /\ h # <<>> => h[1].role = "user"
    /\ \A i \in 1..Len(h) :
          /\ h[i].role \in {"user", "assistant"}
          /\ h[i].role = "assistant" => (i > 1 /\ h[i - 1].role = "user")

C25_HistoryIsWellFormed ==
    [][ \A p \in Identities :
          /\ WellFormedHistory(After(p).history)
          /\ Before(p).history # <<>> => After(p).history # <<>>
          /\ p \in DOMAIN user_conversations => p \in DOMAIN user_conversations' ]_vars

\* a regenerate command took the assistant turn off a history, leaving the
\* user turns before it
C25_Witness ==
    /\ last.sent # <<>> /\ last.sent[1].msg = "provide_changes"
    /\ LET h == Get(user_conversations, last.who, <<>>)
       IN  /\ Len(h) = 2
           /\ h[1].role = "user" /\ h[2].role = "user"
           /\ h[2].content = RegenerationPrompt(Idea)

(* C26: an authorization is stored for an identity only by a message of     *)
(* that identity for which the code exchange gave an access token and the    *)
(* user id lookup gave an id, so every stored authorization has an access    *)
(* token, an expiry time and a user id; when the exchange or the lookup      *)
(* fails, the authorization the identity had, its phase, its history and its *)
(* pending post are as before.                                               *)
ExchangeTried(ev) ==
    \E i \in 1..Len(ev.api) : ev.api[i].svc = "linkedin_accessToken"

ExchangeSucceeded(ev) ==
    /\ \E i \in 1..Len(ev.api) :
          ev.api[i].svc = "linkedin_accessToken" /\ ev.api[i].result = "ok"
    /\ \E i \in 1..Len(ev.api) :
          ev.api[i].svc = "linkedin_userinfo" /\ ev.api[i].result \in LinkedInSubs

C26_AuthorizationNeedsBothSteps ==
    [][ \A p \in Identities :
          /\ (After(p).authorized # Before(p).authorized
                \/ After(p).authorization # Before(p).authorization)
               => /\ Handles("text") /\ last'.who = p
                  /\ ExchangeSucceeded(last')
          /\ After(p).authorized
               => /\ After(p).authorization.access_token \in AccessTokens
                  /\ After(p).authorization.linkedin_id_sub \in LinkedInSubs
                  /\ After(p).authorization.expires_at > 0
          /\ (Handles("text") /\ last'.who = p /\ ExchangeTried(last')
                /\ ~ExchangeSucceeded(last'))
               => /\ After(p) = Before(p)
                  /\ user_tokens' = user_tokens
          /\ (Handles("text") /\ last'.who = p /\ ExchangeSucceeded(last'))
               => /\ After(p).authorized
                  /\ After(p).authorization.access_token
                       = last'.api[Len(last'.api)].content
                  /\ After(p).authorization.linkedin_id_sub
                       = last'.api[Len(last'.api)].result
                  /\ After(p).authorization.expires_at >= now ]_vars

\* an identity that is connected sent a code whose exchange gave an access
\* token, and the lookup of the user id failed
C26_Witness ==
    /\ last.kind = "text"
    /\ Len(last.api) = 2
    /\ last.api[1].svc = "linkedin_accessToken" /\ last.api[1].result = "ok"
    /\ last.api[2].svc = "linkedin_userinfo" /\ last.api[2].result = None
    /\ last.who \in DOMAIN user_tokens
    /\ user_tokens[last.who].linkedin_id_sub \in LinkedInSubs

====
